---- MODULE Spec2Model ----
(***************************************************************************)
(* Model of the PiCamera capture backend                                   *)
(* (src/platform/linux/picamera_capture.cpp).                              *)
(*                                                                         *)
(* The state is one capture session (picamera_display_t with its           *)
(* format_context_t, codec_context_t and scale_context_t members), the     *)
(* native resources it holds, the consumer's image pool, the position of   *)
(* capture() in its loop and the clock it paces itself against.  The       *)
(* multimedia library and the consumer callbacks are the environment:      *)
(* their results are drawn from small sets.                                *)
(***************************************************************************)
EXTENDS Integers, Sequences, FiniteSets, TLC

VARIABLES
    fs,         \* the device nodes that exist in the filesystem
    names,      \* what display_names() returned last, as <<list>> (<<>> before a call)
    probed,     \* what initialize() returned last (<<>> before a call)
    phase,      \* lifecycle of the session: "none", "failed", "ready", "capturing", "returned", "destroyed"
    cfg,        \* the video::config_t given to create_display
    probe,      \* how the library answered during create_display
    display,    \* the picamera_display_t create_display returned (NULL: nullptr)
    os,         \* native resources alive: device handles, decoder and scaler contexts
    pool,       \* the consumer's images, by slot (NULL: not allocated)
    pc,         \* position of capture(): "idle", "top", "pull", "fill", "push", "done"
    clock,      \* steady_clock, in nanoseconds since the session was created
    next_frame, \* capture()'s local next_frame
    now,        \* capture()'s local now, sampled at the top of the iteration
    img_out,    \* capture()'s local img_out: the slot it holds (0: empty pointer)
    status,     \* what read_frame returned in this iteration
    result,     \* what capture() returned ("none" while it has not)
    hist        \* observations of the run, for the properties only

vars == <<fs, names, probed, phase, cfg, probe, display, os, pool, pc, clock,
          next_frame, now, img_out, status, result, hist>>

\* a null pointer, an object or a result that is not there
NULL == [null |-> TRUE]

(***************************************************************************)
(* Bounds of the model.                                                    *)
(***************************************************************************)
MaxNode == 9        \* device nodes /dev/video0 .. /dev/video<MaxNode> may exist
MaxIter == 3        \* iterations of the capture loop that are explored
MaxClock == 1100000000  \* the clock is followed up to this many nanoseconds
MaxCalls == 4       \* calls made on the sessions of one display

(***************************************************************************)
(* Program constants.                                                      *)
(***************************************************************************)
Second == 1000000000        \* std::chrono::nanoseconds {1s}
NumProbed == 8              \* display_names() probes idx = 0 .. 7
DefaultWidth == 1280        \* constructor: width = 1280
DefaultHeight == 720        \* constructor: height = 720
DefaultRate == 30           \* member initialiser of delay: 1s / 30
BytesPerPixel == 4          \* pixel_pitch = 4, row_pitch = width * 4
NoStream == -1              \* stream_index {-1}

DEFAULT_DEVICE == "/dev/video0"

Max(a, b) == IF a >= b THEN a ELSE b

(***************************************************************************)
(* Capture facade: initialize() and display_names().                       *)
(***************************************************************************)
\* "/dev/video" + std::to_string(idx)
DevicePath(idx) == "/dev/video" \o ToString(idx)

\* std::filesystem::exists(path)
exists(files, path) == path \in files

initialize(files) == exists(files, DEFAULT_DEVICE)

\* the loop of display_names(), from idx up to NumProbed - 1
RECURSIVE probe_devices(_, _, _)
probe_devices(files, idx, devices) ==
    IF idx >= NumProbed THEN devices
    ELSE probe_devices(files, idx + 1,
                       IF exists(files, DevicePath(idx))
                       THEN Append(devices, DevicePath(idx))
                       ELSE devices)

\* display_names() without the fallback entry
display_names_no_fallback(files) == probe_devices(files, 0, <<>>)

display_names(files) ==
    LET devices == probe_devices(files, 0, <<>>)
    IN  IF devices = <<>> THEN <<DEFAULT_DEVICE>> ELSE devices

(***************************************************************************)
(* Inputs and the answers of the environment.                              *)
(***************************************************************************)
\* video::config_t: width and height hints (0: unspecified), framerate
\* (0: unspecified)
SizeHints == {[width |-> 0, height |-> 0], [width |-> 640, height |-> 480]}
FrameRates == {-1, 0, 30}
Configs == {[width |-> h.width, height |-> h.height, framerate |-> r] :
              h \in SizeHints, r \in FrameRates}

\* the calls of create_display that are followed: the default device without
\* size hints, or a named device with them, at every frame rate
Requests == {q \in [device : {"", "/dev/video1"}, config : Configs] :
               (q.device = "") <=> (q.config.width = 0)}

\* the codec parameters of the streams the device offers, by stream index
DeviceStreams == [i \in {0, 1} |-> IF i = 0 THEN [width |-> 1280, height |-> 720]
                                            ELSE [width |-> 800, height |-> 600]]

\* the geometries a decoded frame may have
Geoms == {DeviceStreams[i] : i \in DOMAIN DeviceStreams}

\* where the library refuses during init (falling through "none") and what
\* av_find_best_stream answers when it finds a stream; a negative answer is
\* AVERROR_STREAM_NOT_FOUND
FailPoints == {"none", "input_fmt", "open_input", "stream_info", "best_stream",
               "decoder", "alloc", "to_context", "open2"}
OpenAnswers == [fail : FailPoints, best : DOMAIN DeviceStreams]
StreamNotFound == -1381258232

(***************************************************************************)
(* Native resources: open device handles, live decoder and scaler          *)
(* contexts, and the heap of pixel arrays (heap[p]: its size in bytes and   *)
(* how often it was released).                                             *)
(***************************************************************************)
NoResources == [dev |-> 0, dec |-> 0, sws |-> 0, heap |-> <<>>]

\* new std::uint8_t[size]
\* bytes: what the array holds, "uninit" as new[] leaves it, "zero" after a
\* memset, "frame" once sws_scale has written the rows of a frame
new_array(res, size) ==
    [res EXCEPT !.heap = Append(@, [size |-> size, frees |-> 0, bytes |-> "uninit"])]

\* the bytes of the array at p are overwritten
write_array(res, p, bytes) == [res EXCEPT !.heap[p].bytes = bytes]

\* delete[] p (a null pointer, 0, is left alone)
delete_array(res, p) ==
    IF p = 0 THEN res
    ELSE [res EXCEPT !.heap[p].frees = @ + 1]

(***************************************************************************)
(* format_context_t: the device session.                                   *)
(*   ctx: whether the AVFormatContext pointer is non-null;                 *)
(*   streams: ctx->streams, the codec parameters of its streams by index.  *)
(***************************************************************************)
format_new == [ctx |-> FALSE, stream_index |-> NoStream, streams |-> NULL]

\* The size and rate hints go into the options dictionary, which the device
\* takes as advice: what it negotiates (DeviceStreams) does not depend on them.
format_open(f, res, config, a) ==
    IF a.fail = "input_fmt"
    THEN [ok |-> FALSE, f |-> f, res |-> res]
    ELSE IF a.fail = "open_input"
    \* avformat_open_input leaves the pointer null when it fails: a context
    \* handed in is freed, without closing the device it had open
    THEN [ok |-> FALSE, f |-> [f EXCEPT !.ctx = FALSE, !.streams = NULL], res |-> res]
    ELSE
      LET opened == [f EXCEPT !.ctx = TRUE, !.streams = DeviceStreams]
          res1   == [res EXCEPT !.dev = @ + 1]
      IN  IF a.fail = "stream_info"
          THEN [ok |-> FALSE, f |-> opened, res |-> res1]
          ELSE
            LET found == [opened EXCEPT !.stream_index =
                             IF a.fail = "best_stream" THEN StreamNotFound ELSE a.best]
            IN  IF found.stream_index < 0
                THEN [ok |-> FALSE, f |-> found, res |-> res1]
                ELSE [ok |-> TRUE, f |-> found, res |-> res1]

format_close(f, res) ==
    IF f.ctx
    THEN [f |-> [f EXCEPT !.ctx = FALSE, !.stream_index = NoStream, !.streams = NULL],
          res |-> [res EXCEPT !.dev = @ - 1]]
    ELSE [f |-> f, res |-> res]

\* stream(): the selected stream, here its codecpar (NULL: nullptr)
format_stream(f) ==
    IF ~f.ctx \/ f.stream_index < 0 THEN NULL ELSE f.streams[f.stream_index]

format_index(f) == f.stream_index

(***************************************************************************)
(* codec_context_t: the decode session.  ctx: the AVCodecContext pointer   *)
(* is non-null.                                                            *)
(***************************************************************************)
codec_new == [ctx |-> FALSE]

codec_open(c, res, params, a) ==
    IF params = NULL
    THEN [ok |-> FALSE, c |-> c, res |-> res]
    ELSE IF a.fail = "decoder"
    THEN [ok |-> FALSE, c |-> c, res |-> res]
    ELSE IF a.fail = "alloc"
    THEN [ok |-> FALSE, c |-> [c EXCEPT !.ctx = FALSE], res |-> res]
    ELSE
      LET c1   == [c EXCEPT !.ctx = TRUE]
          res1 == [res EXCEPT !.dec = @ + 1]
      IN  IF a.fail = "to_context"
          THEN [ok |-> FALSE, c |-> c1, res |-> res1]
          ELSE IF a.fail = "open2"
          THEN [ok |-> FALSE, c |-> c1, res |-> res1]
          ELSE [ok |-> TRUE, c |-> c1, res |-> res1]

\* a destructor that forgets avcodec_free_context
codec_free_leak(c, res) == res

\* ~codec_context_t
codec_free(c, res) ==
    IF c.ctx THEN [res EXCEPT !.dec = @ - 1] ELSE res

(***************************************************************************)
(* scale_context_t: the conversion session.  key: the source geometry the  *)
(* cached SwsContext was built for.                                        *)
(***************************************************************************)
scaler_new == [ctx |-> FALSE, key |-> NULL]

\* sws_getCachedContext keeps a context whose key matches, replaces any
\* other, and frees the old one when it cannot build the new one.
scaler_configure(s, res, key, built) ==
    IF s.ctx /\ s.key = key
    THEN [ok |-> TRUE, s |-> s, res |-> res]
    ELSE
      LET res0 == IF s.ctx THEN [res EXCEPT !.sws = @ - 1] ELSE res
      IN  IF built
          THEN [ok |-> TRUE, s |-> [ctx |-> TRUE, key |-> key],
                res |-> [res0 EXCEPT !.sws = @ + 1]]
          ELSE [ok |-> FALSE, s |-> [ctx |-> FALSE, key |-> NULL], res |-> res0]

\* ~scale_context_t
scaler_free(s, res) ==
    IF s.ctx THEN [res EXCEPT !.sws = @ - 1] ELSE res

(***************************************************************************)
(* picamera_display_t: construction, init() and destruction.               *)
(***************************************************************************)
\* the inter-frame delay init() derives from the frame rate
frame_delay(framerate) == Second \div Max(1, framerate)

display_new(device_path) ==
    [device     |-> device_path,
     width      |-> DefaultWidth,
     height     |-> DefaultHeight,
     env_width  |-> 0,
     env_height |-> 0,
     delay      |-> Second \div DefaultRate,
     format     |-> format_new,
     codec      |-> codec_new,
     scaler     |-> scaler_new]

\* init() leaving the geometry the constructor set
init_geometry_default(d, stream) == d

\* the geometry init() takes for the session, given the negotiated stream
init_geometry(d, stream) ==
    [d EXCEPT !.width = stream.width, !.height = stream.height,
              !.env_width = stream.width, !.env_height = stream.height]

init(d, res, config, a) ==
    LET d0 == [d EXCEPT !.delay = frame_delay(config.framerate)]
        fo == format_open(d0.format, res, config, a)
        d1 == [d0 EXCEPT !.format = fo.f]
    IN  IF ~fo.ok
        THEN [ok |-> FALSE, d |-> d1, res |-> fo.res]
        ELSE
          LET stream == format_stream(d1.format)
          IN  IF stream = NULL
              THEN [ok |-> FALSE, d |-> d1, res |-> fo.res]
              ELSE
                LET d2 == init_geometry(d1, stream)
                    co == codec_open(d2.codec, fo.res, stream, a)
                    d3 == [d2 EXCEPT !.codec = co.c]
                IN  [ok |-> co.ok, d |-> d3, res |-> co.res]

\* ~picamera_display_t: format.close(), then the members in reverse order
\* of declaration (scaler, codec, format, whose destructor closes again)
display_free(d, res) ==
    LET c1 == format_close(d.format, res)
        r2 == scaler_free(d.scaler, c1.res)
        r3 == codec_free(d.codec, r2)
        c4 == format_close(c1.f, r3)
    IN  c4.res

\* create_display: on a failed init the only shared_ptr goes out of scope,
\* which destroys the display
create_display(device, res, config, a) ==
    LET resolved == IF device = "" THEN DEFAULT_DEVICE ELSE device
        made     == init(display_new(resolved), res, config, a)
    IN  IF ~made.ok
        THEN [display |-> NULL, res |-> display_free(made.d, made.res)]
        ELSE [display |-> made.d, res |-> made.res]

(***************************************************************************)
(* Images.  picamera_frame_t is an img_t whose constructor sets            *)
(* pixel_pitch; data is a pointer into the heap (0: nullptr).              *)
(***************************************************************************)
frame_new ==
    [width |-> 0, height |-> 0, row_pitch |-> 0, pixel_pitch |-> BytesPerPixel,
     data |-> 0, frame_timestamp |-> <<>>]

alloc_img(d, res) ==
    LET pitch == d.width * BytesPerPixel
        res1  == new_array(res, pitch * d.height)
    IN  [img |-> [frame_new EXCEPT !.row_pitch = pitch, !.height = d.height,
                                   !.data = Len(res1.heap)],
         res |-> res1]

\* dummy_img: -1 for a null image; an image without a store gets one of the
\* session's geometry; the store is zeroed
dummy_img(d, img, res) ==
    IF img = NULL
    THEN [ret |-> -1, img |-> img, res |-> res]
    ELSE
      LET res1 == IF img.data = 0
                  THEN new_array(res, d.width * BytesPerPixel * d.height)
                  ELSE res
          img1 == IF img.data = 0
                  THEN [img EXCEPT !.row_pitch = d.width * BytesPerPixel,
                                   !.height = d.height,
                                   !.data = Len(res1.heap)]
                  ELSE img
      IN  [ret |-> 0, img |-> img1, res |-> write_array(res1, img1.data, "zero")]

(***************************************************************************)
(* read_frame: one packet read, one send to the decoder, one receive, the  *)
(* conversion into the image.  The library's answers:                      *)
(*   a.read, a.send, a.recv: "ok", "eagain" (AVERROR(EAGAIN)) or "error";  *)
(*   a.stream: the stream the packet belongs to;                           *)
(*   a.frame_alloc: av_frame_alloc gave a frame;                           *)
(*   a.frame: the geometry of the decoded frame;                           *)
(*   a.configure: the scaler could be built; a.scale: sws_scale wrote rows.*)
(* t is the clock when the conversion is done.                             *)
(***************************************************************************)
ReadAnswers ==
    [read : {"ok", "eagain", "error"}, stream : {0, 1},
     send : {"ok", "eagain", "error"}, frame_alloc : BOOLEAN,
     recv : {"ok", "eagain", "error"}, frame : Geoms,
     configure : BOOLEAN, scale : BOOLEAN]

\* a reallocation that forgets delete[]
fit_buffer_leak(img, res, g) ==
    IF img.data = 0 \/ img.row_pitch # g.width * BytesPerPixel \/ img.height # g.height
    THEN LET res1 == new_array(res, g.width * BytesPerPixel * g.height)
         IN  [img |-> [img EXCEPT !.row_pitch = g.width * BytesPerPixel,
                                  !.height = g.height,
                                  !.data = Len(res1.heap)],
              res |-> res1]
    ELSE [img |-> img, res |-> res]

\* a store that is only allocated when there is none
fit_buffer_keep(img, res, g) ==
    IF img.data = 0
    THEN LET res1 == new_array(res, g.width * BytesPerPixel * g.height)
         IN  [img |-> [img EXCEPT !.row_pitch = g.width * BytesPerPixel,
                                  !.height = g.height,
                                  !.data = Len(res1.heap)],
              res |-> res1]
    ELSE [img |-> img, res |-> res]

\* the buffer (re)allocation of read_frame for a frame of geometry g
fit_buffer(img, res, g) ==
    IF img.data = 0 \/ img.row_pitch # g.width * BytesPerPixel \/ img.height # g.height
    THEN LET res0 == delete_array(res, img.data)
             res1 == new_array(res0, g.width * BytesPerPixel * g.height)
         IN  [img |-> [img EXCEPT !.row_pitch = g.width * BytesPerPixel,
                                  !.height = g.height,
                                  !.data = Len(res1.heap)],
              res |-> res1]
    ELSE [img |-> img, res |-> res]

\* what read_frame answers for a packet read that failed with code r
read_failure(r) == IF r = "eagain" THEN "timeout" ELSE "error"

\* what read_frame answers for a avcodec_send_packet that failed with code r
send_failure(r) == "error"

\* what read_frame answers for a avcodec_receive_frame that gave code r
recv_failure(r) == IF r = "eagain" THEN "timeout" ELSE "error"

\* a read_frame that sizes the image before it reads
leave_sized(d, img, res) ==
    [status |-> "none", d |-> d, res |-> res,
     img |-> [img EXCEPT !.width = d.width, !.height = d.height]]

\* lines 309-343: the returns of read_frame before a frame is decoded
leave(d, img, res) == [status |-> "none", d |-> d, img |-> img, res |-> res]

read_frame(d, img, res, a, t) ==
    LET same == leave(d, img, res)
    IN  IF a.read # "ok"
        THEN [same EXCEPT !.status = read_failure(a.read)]
        ELSE IF a.stream # format_index(d.format)
        THEN [same EXCEPT !.status = "timeout"]
        ELSE IF a.send # "ok"
        THEN [same EXCEPT !.status = send_failure(a.send)]
        ELSE IF ~a.frame_alloc
        THEN [same EXCEPT !.status = "error"]
        ELSE IF a.recv # "ok"
        THEN [same EXCEPT !.status = recv_failure(a.recv)]
        ELSE
          LET d1 == [d EXCEPT !.width = a.frame.width, !.height = a.frame.height,
                              !.env_width = a.frame.width, !.env_height = a.frame.height]
              sc == scaler_configure(d1.scaler, res, a.frame, a.configure)
              d2 == [d1 EXCEPT !.scaler = sc.s]
          IN  IF ~sc.ok
              THEN [status |-> "error", d |-> d2, img |-> img, res |-> sc.res]
              ELSE
                LET fit  == fit_buffer(img, sc.res, a.frame)
                    img1 == [fit.img EXCEPT !.width = a.frame.width,
                                            !.height = a.frame.height,
                                            !.pixel_pitch = BytesPerPixel]
                IN  IF ~a.scale
                    THEN [status |-> "error", d |-> d2, img |-> img1, res |-> fit.res]
                    ELSE [status |-> "ok", d |-> d2,
                          img |-> [img1 EXCEPT !.frame_timestamp = <<t>>],
                          res |-> write_array(fit.res, img1.data, "frame")]

(***************************************************************************)
(* capture(): the pacer and the exchange with the consumer.                *)
(***************************************************************************)
\* a loop that also sleeps when the tick is due
must_sleep_when_due(tick, t) == tick >= t

\* line 242: the loop sleeps when the scheduled tick is still ahead
must_sleep(tick, t) == tick > t

\* a pacer that resynchronises to now, without the delay
advance_resync_to_now(tick, t, delay) ==
    LET stepped == tick + delay
    IN  IF stepped < t THEN t ELSE stepped

\* the pacer without the resynchronisation of lines 248-250
advance_no_resync(tick, t, delay) == tick + delay

\* lines 247-250: advance the tick, resynchronise when it is still behind
advance(tick, t, delay) ==
    LET stepped == tick + delay
    IN  IF stepped < t THEN t + delay ELSE stepped

\* a loop that goes on after a refused pull
after_pull_ignored(granted) == [return |-> FALSE, result |-> "none"]

\* lines 253-255: what capture() does with the answer of pull_free_image_cb
after_pull(granted) ==
    IF ~granted THEN [return |-> TRUE, result |-> "interrupted"]
    ELSE [return |-> FALSE, result |-> "none"]

\* a loop that returns on a timeout instead of pushing the repeat
dispatch_timeout_returns(st) ==
    IF st = "ok" THEN [push |-> TRUE, is_new |-> TRUE]
    ELSE [push |-> FALSE, is_new |-> FALSE]

\* a loop that pushes a repeat on every status but ok
dispatch_error_repeats(st) ==
    IF st = "ok" THEN [push |-> TRUE, is_new |-> TRUE]
    ELSE [push |-> TRUE, is_new |-> FALSE]

\* lines 258-268: what capture() does with the status of read_frame
dispatch(st) ==
    IF st = "ok" THEN [push |-> TRUE, is_new |-> TRUE]
    ELSE IF st = "timeout" THEN [push |-> TRUE, is_new |-> FALSE]
    ELSE [push |-> FALSE, is_new |-> FALSE]

\* a loop that keeps its pointer to the image it pushed
given_away_kept(slot) == slot

\* lines 252, 259, 263: the image is moved into the push, and img_out ends
\* with the iteration: what the loop holds afterwards
given_away(slot) == 0

\* a loop that reports a declined push as an error
after_push_error(continue) ==
    IF ~continue THEN [return |-> TRUE, result |-> "error"]
    ELSE [return |-> FALSE, result |-> "none"]

\* lines 259-265: what capture() does with the answer of push_captured_image_cb
after_push(continue) ==
    IF ~continue THEN [return |-> TRUE, result |-> "ok"]
    ELSE [return |-> FALSE, result |-> "none"]

(***************************************************************************)
(* What the environment may answer in one run of read_frame: the answers   *)
(* behind the deciding one are left at their first value, and a fill takes  *)
(* no time, a little more than one delay or a little more than two.  A     *)
(* sleep ends at the tick it waits for: capture() does not sample the clock *)
(* again after it, so a late wake-up only adds to the time the fill takes.  *)
(* The callbacks of the consumer take no time of their own: time they would *)
(* take also only moves the next sample of now, as a longer fill does.      *)
(***************************************************************************)
Decided(a) ==
    LET first == [read |-> "ok", stream |-> 0, send |-> "ok", frame_alloc |-> TRUE,
                  recv |-> "ok", frame |-> [width |-> 1280, height |-> 720],
                  configure |-> TRUE, scale |-> TRUE]
        Rest(fields) == \A k \in fields : a[k] = first[k]
    IN  /\ a.read # "ok" => Rest({"stream", "send", "frame_alloc", "recv", "frame", "configure", "scale"})
        /\ a.send # "ok" => Rest({"frame_alloc", "recv", "frame", "configure", "scale"})
        /\ ~a.frame_alloc => Rest({"recv", "frame", "configure", "scale"})
        /\ a.recv # "ok" => Rest({"frame", "configure", "scale"})
        /\ ~a.configure => Rest({"scale"})

ReadPaths == {a \in ReadAnswers : Decided(a)}

FillTimes(delay) == {0, delay + 1, 2 * delay + 1}

\* images of the consumer's pool
Slots == {1, 2}

(***************************************************************************)
(* Observations kept for the properties.                                   *)
(***************************************************************************)
NoHist ==
    [iter      |-> 0,       \* iterations begun
     fills     |-> 0,       \* calls of read_frame
     pushes    |-> 0,       \* calls of push_captured_image_cb
     pulled    |-> 0,       \* the slot pulled in this iteration (0: none)
     push      |-> "none",  \* this iteration's push: "new" or "repeat"
     pushed    |-> 0,       \* the slot pushed in this iteration (0: none)
     refused   |-> FALSE,   \* pull_free_image_cb returned false
     declined  |-> FALSE,   \* push_captured_image_cb returned false
     timeouts  |-> 0,       \* fills that returned timeout in a row
     repeats   |-> 0,       \* pushes with is_new = false in a row
     slept     |-> FALSE,   \* this iteration slept
     before    |-> 0,       \* next_frame when this iteration began
     tick      |-> 0,       \* next_frame after lines 247-250 of this iteration
     last      |-> 0,       \* the same of the iteration before
     fill_time |-> 0,       \* how long the last fill took
     calls     |-> 0,       \* calls made on the sessions of a display
     call      |-> "none",  \* the last of them
     ok        |-> FALSE,   \* what it returned
     prev      |-> NULL]    \* what it found: the sessions and resources
                            \* before a session call; the image, display,
                            \* resources and library answers of a fill

(***************************************************************************)
(* Initial states.                                                         *)
(***************************************************************************)
Nodes == {DevicePath(i) : i \in 0..MaxNode}

Fresh ==
    /\ names = <<>>
    /\ probed = <<>>
    /\ phase = "none"
    /\ cfg = NULL
    /\ probe = NULL
    /\ display = NULL
    /\ os = NoResources
    /\ pool = [s \in Slots |-> NULL]
    /\ pc = "idle"
    /\ clock = 0
    /\ next_frame = 0
    /\ now = 0
    /\ img_out = 0
    /\ status = "none"
    /\ result = "none"
    /\ hist = NoHist

Init ==
    /\ fs = {DEFAULT_DEVICE}
    /\ Fresh

InitNames ==
    /\ fs \in SUBSET Nodes
    /\ Fresh

(***************************************************************************)
(* Actions of the facade.                                                  *)
(***************************************************************************)
Initialize ==
    /\ probed' = <<initialize(fs)>>
    /\ UNCHANGED <<fs, names, phase, cfg, probe, display, os, pool, pc, clock,
                   next_frame, now, img_out, status, result, hist>>

DisplayNames ==
    /\ names' = <<display_names(fs)>>
    /\ UNCHANGED <<fs, probed, phase, cfg, probe, display, os, pool, pc, clock,
                   next_frame, now, img_out, status, result, hist>>

CreateDisplay ==
    /\ phase = "none"
    /\ \E q \in Requests, a \in OpenAnswers :
         LET made == create_display(q.device, os, q.config, a)
         IN  /\ display' = made.display
             /\ os' = made.res
             /\ cfg' = q.config
             /\ probe' = a
             /\ phase' = IF made.display = NULL THEN "failed" ELSE "ready"
    /\ UNCHANGED <<fs, names, probed, pool, pc, clock, next_frame, now, img_out,
                   status, result, hist>>

\* the consumer fills its pool with display->alloc_img(), slot by slot,
\* before it calls capture()
AllocImg ==
    /\ phase = "ready"
    /\ \E s \in Slots :
         /\ pool[s] = NULL
         /\ \A o \in Slots : o < s => pool[o] # NULL
         /\ LET made == alloc_img(display, os)
            IN  /\ pool' = [pool EXCEPT ![s] = made.img]
                /\ os' = made.res
    /\ UNCHANGED <<fs, names, probed, phase, cfg, probe, display, pc, clock,
                   next_frame, now, img_out, status, result, hist>>

\* the consumer puts an image without a store into its pool
EmptyImg ==
    /\ phase = "ready"
    /\ \E s \in Slots :
         /\ pool[s] = NULL
         /\ \A o \in Slots : o < s => pool[o] # NULL
         /\ pool' = [pool EXCEPT ![s] = frame_new]
    /\ UNCHANGED <<fs, names, probed, phase, cfg, probe, display, os, pc, clock,
                   next_frame, now, img_out, status, result, hist>>

\* the consumer calls display->dummy_img on an image of its pool, before it
\* calls capture()
DummyImg ==
    /\ phase = "ready"
    /\ \E s \in Slots :
         /\ pool[s] # NULL
         /\ LET made == dummy_img(display, pool[s], os)
            IN  /\ pool' = [pool EXCEPT ![s] = made.img]
                /\ os' = made.res
    /\ UNCHANGED <<fs, names, probed, phase, cfg, probe, display, pc, clock,
                   next_frame, now, img_out, status, result, hist>>

\* the owner drops the session: ~picamera_display_t
Destroy ==
    /\ phase \in {"ready", "returned"}
    /\ os' = display_free(display, os)
    /\ display' = NULL
    /\ phase' = "destroyed"
    /\ UNCHANGED <<fs, names, probed, cfg, probe, pool, pc, clock, next_frame,
                   now, img_out, status, result, hist>>

(***************************************************************************)
(* Actions of capture().                                                   *)
(***************************************************************************)
\* lines 237-238
CaptureStart ==
    /\ phase = "ready"
    /\ \A s \in Slots : pool[s] # NULL
    /\ phase' = "capturing"
    /\ pc' = "top"
    /\ next_frame' = clock
    /\ hist' = NoHist
    /\ UNCHANGED <<fs, names, probed, cfg, probe, display, os, pool, clock, now,
                   img_out, status, result>>

\* lines 241-250: sample now, sleep to the tick, advance the tick
Tick ==
    /\ pc = "top"
    /\ hist.iter < MaxIter
    /\ now' = clock
    /\ IF must_sleep(next_frame, clock)
       THEN /\ next_frame <= MaxClock
            /\ clock' = next_frame
       ELSE clock' = clock
    /\ next_frame' = advance(next_frame, clock, display.delay)
    /\ status' = "none"
    /\ hist' = [hist EXCEPT !.iter = @ + 1, !.pulled = 0, !.push = "none",
                            !.pushed = 0, !.slept = must_sleep(next_frame, clock),
                            !.before = next_frame, !.last = hist.tick,
                            !.tick = advance(next_frame, clock, display.delay)]
    /\ pc' = "pull"
    /\ UNCHANGED <<fs, names, probed, phase, cfg, probe, display, os, pool,
                   img_out, result>>

\* lines 252-255, the consumer hands out an image
PullGranted ==
    /\ pc = "pull"
    /\ \E s \in Slots :
         /\ pool[s] # NULL
         /\ LET go == after_pull(TRUE)
            IN  /\ img_out' = IF go.return THEN 0 ELSE s
                /\ pc' = IF go.return THEN "done" ELSE "fill"
                /\ phase' = IF go.return THEN "returned" ELSE phase
                /\ result' = go.result
                /\ hist' = [hist EXCEPT !.pulled = s]
    /\ UNCHANGED <<fs, names, probed, cfg, probe, display, os, pool, clock,
                   next_frame, now, status>>

\* lines 252-255, the consumer refuses
PullRefused ==
    /\ pc = "pull"
    /\ LET go == after_pull(FALSE)
       IN  /\ pc' = IF go.return THEN "done" ELSE "fill"
           /\ phase' = IF go.return THEN "returned" ELSE phase
           /\ result' = go.result
    /\ img_out' = 0
    /\ hist' = [hist EXCEPT !.refused = TRUE]
    /\ UNCHANGED <<fs, names, probed, cfg, probe, display, os, pool, clock,
                   next_frame, now, status>>

\* line 257: read_frame(*img_out), taking one of the given times; the
\* answers of the library are kept for the properties when asked for
FillTaking(times, keep) ==
    /\ pc = "fill"
    /\ img_out # 0
    /\ \E a \in ReadPaths, took \in times :
         /\ took <= MaxClock - clock
         /\ LET r == read_frame(display, pool[img_out], os, a, clock + took)
            IN  /\ display' = r.d
                /\ pool' = [pool EXCEPT ![img_out] = r.img]
                /\ os' = r.res
                /\ status' = r.status
                /\ clock' = clock + took
                /\ hist' = [hist EXCEPT !.fills = @ + 1, !.fill_time = took,
                                        !.timeouts = IF r.status = "timeout"
                                                     THEN @ + 1 ELSE 0,
                                        !.prev = [img |-> pool[img_out], d |-> display,
                                                  res |-> os,
                                                  a |-> IF keep THEN a ELSE NULL]]
    /\ pc' = "push"
    /\ UNCHANGED <<fs, names, probed, phase, cfg, probe, next_frame, now,
                   img_out, result>>

Fill == FillTaking(FillTimes(display.delay), FALSE)

\* a fill that takes no time
FillAtOnce == FillTaking({0}, TRUE)

\* the consumer's answer to a push, and what capture() does with it
Pushed(is_new) ==
    \E continue \in BOOLEAN :
      LET go == after_push(continue)
      IN  /\ pc' = IF go.return THEN "done" ELSE "top"
          /\ phase' = IF go.return THEN "returned" ELSE phase
          /\ result' = go.result
          /\ img_out' = given_away(img_out)
          /\ hist' = [hist EXCEPT !.pushes = @ + 1,
                                  !.push = IF is_new THEN "new" ELSE "repeat",
                                  !.pushed = img_out,
                                  !.declined = ~continue,
                                  !.repeats = IF is_new THEN 0 ELSE @ + 1,
                                  !.prev = NULL]

\* lines 258-261
PushNew ==
    /\ pc = "push"
    /\ dispatch(status).push
    /\ dispatch(status).is_new
    /\ Pushed(TRUE)
    /\ UNCHANGED <<fs, names, probed, cfg, probe, display, os, pool, clock,
                   next_frame, now, status>>

\* lines 262-265
PushRepeat ==
    /\ pc = "push"
    /\ dispatch(status).push
    /\ ~dispatch(status).is_new
    /\ Pushed(FALSE)
    /\ UNCHANGED <<fs, names, probed, cfg, probe, display, os, pool, clock,
                   next_frame, now, status>>

\* lines 266-268
ReturnStatus ==
    /\ pc = "push"
    /\ ~dispatch(status).push
    /\ pc' = "done"
    /\ phase' = "returned"
    /\ result' = status
    /\ img_out' = 0
    /\ hist' = [hist EXCEPT !.prev = NULL]
    /\ UNCHANGED <<fs, names, probed, cfg, probe, display, os, pool, clock,
                   next_frame, now, status>>

(***************************************************************************)
(* The device session and the decode session of a display, called in any   *)
(* order: open() and close() of format_context_t, open() of                *)
(* codec_context_t, and the destructors.                                   *)
(***************************************************************************)
\* line 405: std::make_shared<picamera_display_t>(device)
Construct ==
    /\ phase = "none"
    /\ \E q \in Requests : display' = display_new(q.device)
    /\ phase' = "made"
    /\ UNCHANGED <<fs, names, probed, cfg, probe, os, pool, pc, clock,
                   next_frame, now, img_out, status, result, hist>>

Sessions == [format |-> display.format, codec |-> display.codec, res |-> os]

Called(name, ok) ==
    [hist EXCEPT !.calls = @ + 1, !.call = name, !.ok = ok, !.prev = Sessions]

\* format_context_t::open
FormatOpen ==
    /\ phase = "made"
    /\ hist.calls < MaxCalls
    /\ \E q \in Requests, a \in OpenAnswers :
         LET r == format_open(display.format, os, q.config, a)
         IN  /\ display' = [display EXCEPT !.format = r.f]
             /\ os' = r.res
             /\ hist' = Called("format_open", r.ok)
    /\ UNCHANGED <<fs, names, probed, phase, cfg, probe, pool, pc, clock,
                   next_frame, now, img_out, status, result>>

\* format_context_t::close
FormatClose ==
    /\ phase = "made"
    /\ hist.calls < MaxCalls
    /\ LET r == format_close(display.format, os)
       IN  /\ display' = [display EXCEPT !.format = r.f]
           /\ os' = r.res
    /\ hist' = Called("format_close", TRUE)
    /\ UNCHANGED <<fs, names, probed, phase, cfg, probe, pool, pc, clock,
                   next_frame, now, img_out, status, result>>

\* codec_context_t::open, on the selected stream or on no parameters
CodecOpen ==
    /\ phase = "made"
    /\ hist.calls < MaxCalls
    /\ \E params \in {NULL, format_stream(display.format)}, a \in OpenAnswers :
         LET r == codec_open(display.codec, os, params, a)
         IN  /\ display' = [display EXCEPT !.codec = r.c]
             /\ os' = r.res
             /\ hist' = Called("codec_open", r.ok)
    /\ UNCHANGED <<fs, names, probed, phase, cfg, probe, pool, pc, clock,
                   next_frame, now, img_out, status, result>>

\* ~picamera_display_t and the destructors of its members
Drop ==
    /\ phase = "made"
    /\ os' = display_free(display, os)
    /\ display' = NULL
    /\ phase' = "destroyed"
    /\ hist' = [hist EXCEPT !.call = "destroy", !.prev = Sessions]
    /\ UNCHANGED <<fs, names, probed, cfg, probe, pool, pc, clock, next_frame,
                   now, img_out, status, result>>

(***************************************************************************)
(* Specifications: Spec follows one session from create_display through    *)
(* capture() to its destruction; SpecNames is the enumeration of devices   *)
(* over every set of existing nodes; SpecFill is a session whose pool      *)
(* holds images of every origin, each fill taking no time; SpecSession is  *)
(* the device and decode sessions of a display under any order of calls.   *)
(***************************************************************************)
Next ==
    \/ CreateDisplay
    \/ AllocImg
    \/ CaptureStart
    \/ Tick
    \/ PullGranted
    \/ PullRefused
    \/ Fill
    \/ PushNew
    \/ PushRepeat
    \/ ReturnStatus
    \/ Destroy

Spec == Init /\ [][Next]_vars

NextNames ==
    \/ Initialize
    \/ DisplayNames

SpecNames == InitNames /\ [][NextNames]_vars

\* one session whose pool holds images of every origin: from alloc_img, with
\* or without dummy_img, or without a store
NextFill ==
    \/ CreateDisplay
    \/ AllocImg
    \/ EmptyImg
    \/ DummyImg
    \/ CaptureStart
    \/ Tick
    \/ PullGranted
    \/ PullRefused
    \/ FillAtOnce
    \/ PushNew
    \/ PushRepeat
    \/ ReturnStatus

SpecFill == Init /\ [][NextFill]_vars

NextSession ==
    \/ Construct
    \/ FormatOpen
    \/ FormatClose
    \/ CodecOpen
    \/ Drop

SpecSession == Init /\ [][NextSession]_vars

(***************************************************************************)
(* Properties.                                                             *)
(***************************************************************************)

\* C1: once pull_free_image_cb has refused, capture() has returned
\* interrupted, and neither read_frame nor push_captured_image_cb ran in that
\* iteration or later: no image is held, no status was produced and nothing
\* was pushed since the top of the iteration.
C1_RefusedPullInterrupts ==
    hist.refused =>
        /\ pc = "done"
        /\ result = "interrupted"
        /\ img_out = 0
        /\ status = "none"
        /\ hist.push = "none"
        /\ hist.fills = hist.iter - 1
        /\ hist.pushes = hist.iter - 1

\* C1 witness: the pull of the second iteration is refused, after one frame
\* went through.
C1_Witness ==
    /\ hist.refused
    /\ hist.iter = 2
    /\ hist.pushes = 1
    /\ result = "interrupted"

\* C2: past the dispatch of an ok fill the image pulled in that iteration has
\* been pushed with is_new = true; and once the consumer has declined a push,
\* new or repeat, capture() has returned ok.
C2_OkPushedNewAndDeclineIsOk ==
    /\ (status = "ok" /\ pc # "push") =>
            /\ hist.push = "new"
            /\ hist.pushed # 0
            /\ hist.pushed = hist.pulled
            /\ hist.pushes = hist.iter
    /\ hist.declined =>
            /\ pc = "done"
            /\ result = "ok"
            /\ hist.push \in {"new", "repeat"}

\* C2 witness: the consumer declines the push of the second frame, a repeat.
C2_Witness ==
    /\ hist.declined
    /\ hist.iter = 2
    /\ hist.push = "repeat"
    /\ result = "ok"

\* C3: while the loop runs, n timeouts in a row have led to n pushes with
\* is_new = false in a row; and capture() has returned after a timeout only
\* because the consumer declined the push.
C3_TimeoutsRepeat ==
    /\ pc \in {"top", "pull", "fill"} => hist.repeats = hist.timeouts
    /\ (pc = "push" /\ status = "timeout") => hist.repeats = hist.timeouts - 1
    /\ (status = "timeout" /\ pc # "push") =>
            /\ hist.push = "repeat"
            /\ hist.pushed = hist.pulled
            /\ pc = "done" => (hist.declined /\ result = "ok")

\* C3 witness: three timeouts in a row, three repeats pushed, the loop still
\* running.
C3_Witness ==
    /\ pc = "top"
    /\ hist.timeouts = 3
    /\ hist.repeats = 3
    /\ result = "none"

\* C4: past the dispatch of a fill that returned error, capture() has
\* returned error in that iteration, with one fill per iteration and no push
\* in that one; and capture() has returned error only after such a fill.
C4_ErrorStopsLoop ==
    /\ (status = "error" /\ pc # "push") =>
            /\ pc = "done"
            /\ result = "error"
            /\ hist.push = "none"
            /\ hist.pushed = 0
            /\ hist.fills = hist.iter
            /\ hist.pushes = hist.iter - 1
    /\ result = "error" => (status = "error" /\ ~hist.refused /\ ~hist.declined)

\* C4 witness: the fill of the second iteration fails, after one frame went
\* through.
C4_Witness ==
    /\ result = "error"
    /\ hist.iter = 2
    /\ hist.pushes = 1

\* C5 as claimed: a session made with a frame rate <= 0 paces at 1/30 s.
C5_DefaultRateClaimed ==
    (phase = "ready" /\ cfg.framerate <= 0) => display.delay = Second \div 30

\* C6 as claimed: after a fill that took longer than one delay, the tick of
\* the following iteration is now + delay.
C6_ResetAfterOneDelayClaimed ==
    (pc = "pull" /\ hist.iter >= 2 /\ hist.fill_time > display.delay) =>
        next_frame = now + display.delay

\* C6 amended: after a fill that took longer than two delays, the tick of the
\* following iteration is now + delay; after step 2 of any iteration the tick
\* is not earlier than now, and it is more than one delay ahead of now only
\* when the iteration slept.
C6_DriftBound ==
    pc = "pull" =>
        /\ (hist.iter >= 2 /\ hist.fill_time > 2 * display.delay) =>
                next_frame = now + display.delay
        /\ next_frame >= now
        /\ ~hist.slept => next_frame <= now + display.delay

\* C6 witness: a fill of more than two delays, and the tick reset to
\* now + delay in the following iteration.
C6_Witness ==
    /\ pc = "pull"
    /\ hist.iter >= 2
    /\ hist.fill_time > 2 * display.delay
    /\ hist.before + display.delay < now
    /\ next_frame = now + display.delay

\* C7: create_display returns a session only when no step of init failed, and
\* then the device is open, a stream selected and the decoder live; when a
\* step failed it returns nullptr and no device handle, decoder or scaler is
\* left alive.
C7_NoHalfOpenSession ==
    /\ phase = "ready" =>
            /\ probe.fail = "none"
            /\ display # NULL
            /\ display.format.ctx
            /\ display.format.stream_index >= 0
            /\ display.codec.ctx
            /\ os.dev = 1
            /\ os.dec = 1
    /\ phase = "failed" =>
            /\ probe.fail # "none"
            /\ display = NULL
            /\ os.dev = 0
            /\ os.dec = 0
            /\ os.sws = 0

\* C7 witness: the decoder fails to open after the device was opened and the
\* decoder context allocated.
C7_Witness ==
    /\ phase = "failed"
    /\ probe.fail = "open2"
    /\ display = NULL

\* C8: the session create_display returns reports the width and height of the
\* stream the device negotiated.
C8_NegotiatedGeometry ==
    phase = "ready" =>
        /\ display.width = DeviceStreams[probe.best].width
        /\ display.height = DeviceStreams[probe.best].height
        /\ display.env_width = DeviceStreams[probe.best].width
        /\ display.env_height = DeviceStreams[probe.best].height

\* C8 witness: the negotiated geometry is neither the hint nor the
\* constructor's 1280x720.
C8_Witness ==
    /\ phase = "ready"
    /\ cfg.width # 0
    /\ display.width # cfg.width
    /\ display.width # 1280
    /\ display.height # cfg.height
    /\ display.height # 720

\* the index of a device node
NodeIndex(path) == CHOOSE i \in 0..MaxNode : DevicePath(i) = path

C10_SingleEntryClaimed ==
    (names # <<>> /\ \E i \in 0..7 : DevicePath(i) \in fs) => Len(names[1]) = 1

\* C13: whenever format_context_t::open() has returned false, whichever step
\* failed, the session is closed: the handle is not held open, the stream
\* index is none and stream() returns null.
C13_FailedOpenLeavesClosedClaimed ==
    (phase = "made" /\ hist.call = "format_open" /\ ~hist.ok) =>
        /\ ~display.format.ctx
        /\ format_index(display.format) = NoStream
        /\ format_stream(display.format) = NULL

\* C16: over any sequence of open/close/destructor calls on the device
\* session, a valid (non-negative) stream index implies an open handle;
\* close() releases the handle and sets the index to -1 together; close()
\* on a closed session changes nothing; the destructor leaves no handle.
C16_IndexImpliesHandleClaimed ==
    /\ phase = "made" =>
         /\ format_index(display.format) >= 0 => display.format.ctx
         /\ hist.call = "format_close" =>
               /\ ~display.format.ctx
               /\ format_index(display.format) = NoStream
               /\ hist.prev.format.ctx => os.dev = hist.prev.res.dev - 1
               /\ ~hist.prev.format.ctx =>
                     display.format = hist.prev.format /\ os = hist.prev.res
    /\ (phase = "destroyed" /\ hist.call = "destroy") =>
         (hist.prev.format.ctx => os.dev = hist.prev.res.dev - 1)

\* C17: a live decoder handle implies that the decoder was opened
\* successfully against valid parameters; after codec_context_t::open() has
\* returned false, for whichever reason, the session holds no live handle.
C17_LiveDecoderWasOpenedClaimed ==
    (phase = "made" /\ hist.call = "codec_open" /\ ~hist.ok) =>
        ~display.codec.ctx

\* C11: a fill that returns ok for a frame of the geometry the buffer already
\* has keeps the backing store: no array is freed and none is allocated.  A
\* fill for another geometry W' x H' allocates one new array of W' * 4 * H'
\* bytes and frees the old one exactly once.  Over any sequence of fills no
\* array is freed twice, every image's store is an array that was never
\* freed, and every array that was never freed is the store of exactly one
\* image.
C11_BufferReuse ==
    /\ \A p \in DOMAIN os.heap :
         /\ os.heap[p].frees <= 1
         /\ os.heap[p].frees = 0 <=>
               Cardinality({s \in Slots : pool[s] # NULL /\ pool[s].data = p}) = 1
    /\ (pc = "push" /\ status = "ok") =>
         LET old    == hist.prev.img
             new    == pool[img_out]
             before == hist.prev.res.heap
             g      == hist.prev.a.frame
             same   == /\ old.data # 0
                       /\ old.row_pitch = g.width * BytesPerPixel
                       /\ old.height = g.height
         IN  /\ same =>
                   /\ new.data = old.data
                   /\ Len(os.heap) = Len(before)
                   /\ \A p \in DOMAIN before :
                         os.heap[p].frees = before[p].frees
             /\ ~same =>
                   /\ Len(os.heap) = Len(before) + 1
                   /\ new.data = Len(os.heap)
                   /\ os.heap[new.data].size = g.width * BytesPerPixel * g.height
                   /\ \A p \in DOMAIN before :
                         os.heap[p].frees =
                            before[p].frees + (IF p = old.data THEN 1 ELSE 0)

\* C11 witness: a buffer filled at one geometry, then at another (its first
\* store was freed), is filled again at the geometry it has and keeps its
\* store.
C11_Witness ==
    /\ pc = "push"
    /\ status = "ok"
    /\ hist.fills = 3
    /\ hist.prev.img.frame_timestamp # <<>>
    /\ hist.prev.img.width = hist.prev.a.frame.width
    /\ hist.prev.img.height = hist.prev.a.frame.height
    /\ pool[img_out].data = hist.prev.img.data
    /\ \E p \in DOMAIN os.heap : os.heap[p].frees = 1

\* C12: after every fill that returns ok for a frame of W x H, whatever the
\* buffer was before (without a store, from alloc_img, zeroed by dummy_img,
\* or filled at another geometry), pixel_pitch = 4, width = W, height = H,
\* row_pitch = width * pixel_pitch, and the store is a live array of exactly
\* row_pitch * height bytes holding the frame.
C12_FilledImageConsistent ==
    (pc = "push" /\ status = "ok") =>
        LET img == pool[img_out]
            g   == hist.prev.a.frame
        IN  /\ img.pixel_pitch = BytesPerPixel
            /\ img.width = g.width
            /\ img.height = g.height
            /\ img.row_pitch = img.width * img.pixel_pitch
            /\ img.data \in DOMAIN os.heap
            /\ os.heap[img.data].size = img.row_pitch * img.height
            /\ os.heap[img.data].frees = 0
            /\ os.heap[img.data].bytes = "frame"

\* C12 witness: a buffer that arrived zeroed by dummy_img at the session's
\* geometry is filled with a frame of another geometry.
C12_Witness ==
    /\ pc = "push"
    /\ status = "ok"
    /\ hist.prev.img.data # 0
    /\ hist.prev.res.heap[hist.prev.img.data].bytes = "zero"
    /\ hist.prev.img.height # hist.prev.a.frame.height
    /\ pool[img_out].height = hist.prev.a.frame.height

\* C14: a try-again answer of any step of read_frame (the packet read, the
\* send to the decoder, the receive from it) makes the fill return timeout.
C14_TryAgainIsTimeoutClaimed ==
    pc = "push" =>
        LET a      == hist.prev.a
            mine   == a.read = "ok" /\ a.stream = format_index(hist.prev.d.format)
        IN  /\ a.read = "eagain" => status = "timeout"
            /\ (mine /\ a.send = "eagain") => status = "timeout"
            /\ (mine /\ a.send = "ok" /\ a.frame_alloc /\ a.recv = "eagain") =>
                   status = "timeout"

\* C20: a fill that returns timeout leaves the image as it was pulled (width,
\* height, row pitch, pixel pitch, timestamp, store and the bytes in it) and
\* the session's width and height as they were; what capture() pushes then
\* is a repeat.
C20_TimeoutLeavesUntouched ==
    (pc = "push" /\ status = "timeout") =>
        /\ pool[img_out] = hist.prev.img
        /\ os.heap = hist.prev.res.heap
        /\ display.width = hist.prev.d.width
        /\ display.height = hist.prev.d.height
        /\ dispatch(status) = [push |-> TRUE, is_new |-> FALSE]

\* C20 witness: the decoder has no frame ready for a buffer that holds a
\* frame from an earlier fill; the buffer still holds that frame.
C20_Witness ==
    /\ pc = "push"
    /\ status = "timeout"
    /\ hist.prev.a.recv = "eagain"
    /\ pool[img_out].frame_timestamp # <<>>
    /\ os.heap[pool[img_out].data].bytes = "frame"
    /\ pool[img_out].width # 0

\* C15: after lines 247-250 the scheduled tick is never earlier than the now
\* sampled at the top of the iteration; when the tick advanced by one delay
\* is earlier than now it is set to exactly now + delay, and otherwise it is
\* the advanced tick.
C15_TickNotBehindNow ==
    pc = "pull" =>
        /\ next_frame >= now
        /\ hist.before + display.delay < now => next_frame = now + display.delay
        /\ hist.before + display.delay >= now =>
              next_frame = hist.before + display.delay

\* C15 witness: an iteration that did not sleep finds the advanced tick
\* behind now and leaves it at now + delay.
C15_Witness ==
    /\ pc = "pull"
    /\ ~hist.slept
    /\ now > hist.before + display.delay
    /\ next_frame = now + display.delay
    /\ next_frame > now

\* C18: the loop holds at most one image, the one pulled in this iteration,
\* and only between the pull and the push; what is pushed is the image
\* pulled in the same iteration, at most once per pull; after a push, and
\* after capture() has returned for any reason, the loop holds no image.
C18_BufferOwnership ==
    /\ img_out \in Slots \cup {0}
    /\ pc \in {"fill", "push"} => (img_out # 0 /\ img_out = hist.pulled)
    /\ pc \in {"idle", "top", "pull", "done"} => img_out = 0
    /\ hist.pushed # 0 => (hist.pushed = hist.pulled /\ hist.push # "none")
    /\ hist.push # "none" => (hist.pushed # 0 /\ pc \in {"top", "done"})
    /\ hist.pushes <= hist.fills
    /\ hist.fills <= hist.iter
    /\ pc = "push" => hist.pushes = hist.fills - 1

\* C18 witness: the second image was pushed and the loop went on, holding
\* nothing.
C18_Witness ==
    /\ pc = "top"
    /\ hist.pushes = 2
    /\ hist.pushed # 0
    /\ hist.pushed = hist.pulled
    /\ img_out = 0

\* C19: within one capture() the scheduled tick only moves forward: the
\* delay is positive, the tick after lines 247-250 of an iteration is at
\* least one delay later than the tick after those lines in the iteration
\* before, the tick is untouched in between, and the first iteration never
\* sleeps.
C19_TickMonotone ==
    /\ pc \in {"pull", "fill", "push", "top"} /\ hist.iter >= 1 =>
         /\ display.delay > 0
         /\ next_frame = hist.tick
         /\ hist.tick > hist.before
         /\ hist.iter >= 2 => hist.tick >= hist.last + display.delay
    /\ hist.iter = 1 => ~hist.slept

\* C19 witness: the third iteration resynchronised, and its tick is more
\* than one delay later than the tick of the second.
C19_Witness ==
    /\ pc = "pull"
    /\ hist.iter = 3
    /\ hist.last > 0
    /\ hist.tick > hist.last + display.delay
    /\ next_frame = hist.tick


====
